---- MODULE Spec2Model ----
(***************************************************************************)
(* Model of the cobol-rekt dependency scripts:                             *)
(*   scripts/analyze_jcl_to_cobol.py          (JCL scan, Spec)             *)
(*   scripts/generate_dependency_graph_json.py (graph artifact, SpecDep)   *)
(*   scripts/generate_graph_from_aggregated.py (program graph, SpecAgg)    *)
(* Texts are TLA+ strings; the regular expressions of the scripts are      *)
(* evaluated character by character on them.                               *)
(***************************************************************************)
EXTENDS Integers, Sequences, FiniteSets, TLC

VARIABLES
    \* ---- analyze_jcl_to_cobol.main
    pc,             \* position of main(): "scan", "classify", "done", "crashed"
    args_json,      \* the --json flag
    unreadable,     \* job files whose open() raises
    cobol_index,    \* find_cobol_files(): identifier -> file name
    jcl_files,      \* find_jcl_files(): sorted sequence of job file paths
    jcl_i,          \* index of the job file the outer loop is at
    jcl_name,       \* display name of the job being classified
    programs,       \* identifiers of the current job still to classify
    jcl_to_cobol,   \* defaultdict(list), as a sequence of [key, val] in insertion order
    cobol_to_jcl,   \* defaultdict(list), idem
    stats,          \* [found, system, missing]
    jobdocs,        \* history: [name, programs] of every job file read so far
    classified,     \* history: [jcl, prog, kind] of every branch taken at lines 149-163
    output_data,    \* the JSON mapping artifact (--json)
    graph,          \* the graphviz digraph of main(): [nodes, edges]
    \* ---- generate_dependency_graph
    dep_pc,         \* "program", "jcl", "summary", "done"
    mappings,       \* the cbl_files list of project-analysis.json
    dep_i,          \* index of the program entry the outer loop is at
    dep_j,          \* index of the job name the inner loop is at
    dep_graph,      \* [nodes, edges]
    programs_with_jcl,
    programs_without_jcl,
    summary,
    \* ---- create_graph_from_aggregated_json
    agg_pc,         \* "start", "classify", "inputs", "outputs", "extends",
                    \* "copybooks", "jcl", "done"
    data,           \* the aggregated JSON: [text, copybooks, jcl]
    files,          \* extract_files_from_cobol_text(): sequence of [name, info]
    files_i,        \* index of the file the classification loop is at
    input_files,
    output_files,
    extend_files,
    agg_stats,      \* [program, input_files, output_files, extend_files, copybooks, jcl_context]
    agg_graph,      \* the graphviz digraph: [nodes, edges]
    \* ---- extract_pgm_from_jcl, called on its own
    pgm_pc,         \* "findall", "listset", "done"
    pgm_input,      \* jcl_content, the argument
    matches,        \* re.findall(pattern, jcl_content)
    pgm_result      \* list(set(matches))

scan_vars == <<pc, args_json, unreadable, cobol_index, jcl_files, jcl_i, jcl_name,
               programs, jcl_to_cobol, cobol_to_jcl, stats, jobdocs, classified,
               output_data, graph>>
dep_vars == <<dep_pc, mappings, dep_i, dep_j, dep_graph, programs_with_jcl,
              programs_without_jcl, summary>>
agg_vars == <<agg_pc, data, files, files_i, input_files, output_files, extend_files,
              agg_stats, agg_graph>>
pgm_vars == <<pgm_pc, pgm_input, matches, pgm_result>>
vars == <<scan_vars, dep_vars, agg_vars, pgm_vars>>

(***************************************************************************)
(* Bounds                                                                  *)
(***************************************************************************)
\* job files in the scanned directory
MaxJobs == 2
\* lines of one job-control text
MaxLines == 2
\* program entries of the mapping artifact
MaxEntries == 2
\* job names listed for one program entry
MaxJclRefs == 2
\* statements of one program text
MaxStmts == 3
\* entries of the copybooks list
MaxCopybooks == 2

(***************************************************************************)
(* Strings: characters, classes, case                                      *)
(***************************************************************************)
UpperAlpha == "ABCDEFGHIJKLMNOPQRSTUVWXYZ"
LowerAlpha == "abcdefghijklmnopqrstuvwxyz"
Digits == "0123456789"
\* the characters of the modelled texts, in code point order
CodeOrder == "\n !&'*,-./" \o Digits \o "=" \o UpperAlpha \o "_" \o LowerAlpha

Chr(s, i) == SubSeq(s, i, i)
InStr(c, s) == \E i \in 1..Len(s) : Chr(s, i) = c
CharsOf(s) == {Chr(s, i) : i \in 1..Len(s)}
OrdMap == [c \in CharsOf(CodeOrder) |-> CHOOSE i \in 1..Len(CodeOrder) : Chr(CodeOrder, i) = c]
Ord(c) == OrdMap[c]

SpaceChars == {" ", "\n"}
WordChars == CharsOf(UpperAlpha) \cup CharsOf(LowerAlpha) \cup CharsOf(Digits) \cup {"_"}
UpperAlnumChars == CharsOf(UpperAlpha) \cup CharsOf(Digits)
UpperMap == [c \in CharsOf(LowerAlpha) |->
                Chr(UpperAlpha, CHOOSE i \in 1..Len(LowerAlpha) : Chr(LowerAlpha, i) = c)]

\* \s
IsSpace(c) == c \in SpaceChars
\* \w
IsWord(c) == c \in WordChars
\* [A-Z0-9]
IsUpperAlnum(c) == c \in UpperAlnumChars

UpperChar(c) == IF c \in DOMAIN UpperMap THEN UpperMap[c] ELSE c

RECURSIVE StrUpper(_)
\* str.upper()
StrUpper(s) ==
    IF Len(s) = 0 THEN ""
    ELSE UpperChar(Chr(s, 1)) \o StrUpper(SubSeq(s, 2, Len(s)))

RECURSIVE StrLessFrom(_, _, _)
StrLessFrom(a, b, i) ==
    IF i > Len(b) THEN FALSE
    ELSE IF i > Len(a) THEN TRUE
    ELSE IF Chr(a, i) = Chr(b, i) THEN StrLessFrom(a, b, i + 1)
    ELSE Ord(Chr(a, i)) < Ord(Chr(b, i))
\* a < b on str
StrLess(a, b) == StrLessFrom(a, b, 1)

RECURSIVE Sorted(_)
\* sorted() of a collection of distinct strings
Sorted(S) ==
    IF S = {} THEN <<>>
    ELSE LET m == CHOOSE x \in S : \A y \in S : x = y \/ StrLess(x, y)
         IN <<m>> \o Sorted(S \ {m})

\* literal `lit` at position p of s
LitAt(s, p, lit) == p >= 1 /\ p + Len(lit) - 1 <= Len(s) /\ SubSeq(s, p, p + Len(lit) - 1) = lit
\* the same under re.IGNORECASE
LitAtCI(s, p, lit) ==
    p >= 1 /\ p + Len(lit) - 1 <= Len(s)
    /\ \A k \in 1..Len(lit) : UpperChar(Chr(s, p + k - 1)) = UpperChar(Chr(lit, k))

\* str.find(sub, start), with 1-based positions and 0 for "not found"
StrFind(s, sub, start) ==
    IF \E p \in start..Len(s) : LitAt(s, p, sub)
    THEN CHOOSE p \in start..Len(s) : LitAt(s, p, sub) /\ \A q \in start..(p - 1) : ~LitAt(s, q, sub)
    ELSE 0

RECURSIVE StrReplace(_, _, _)
\* str.replace(old, new), old not empty
StrReplace(s, old, new) ==
    IF Len(s) < Len(old) THEN s
    ELSE IF LitAt(s, 1, old)
         THEN new \o StrReplace(SubSeq(s, Len(old) + 1, Len(s)), old, new)
         ELSE Chr(s, 1) \o StrReplace(SubSeq(s, 2, Len(s)), old, new)

\* first position >= p that ends the run of spaces starting at p (p itself if none)
SpaceRunEnd(s, p) ==
    CHOOSE j \in p..(Len(s) + 1) :
        /\ \A k \in p..(j - 1) : IsSpace(Chr(s, k))
        /\ (j = Len(s) + 1 \/ ~IsSpace(Chr(s, j)))
\* idem for the run of non-spaces (\S+)
NonSpaceRunEnd(s, p) ==
    CHOOSE j \in p..(Len(s) + 1) :
        /\ \A k \in p..(j - 1) : ~IsSpace(Chr(s, k))
        /\ (j = Len(s) + 1 \/ IsSpace(Chr(s, j)))
\* idem for the run of [A-Z0-9]
UpperAlnumRunEnd(s, p) ==
    CHOOSE j \in p..(Len(s) + 1) :
        /\ \A k \in p..(j - 1) : IsUpperAlnum(Chr(s, k))
        /\ (j = Len(s) + 1 \/ ~IsUpperAlnum(Chr(s, j)))

\* \b at the gap before position p
WordBoundary(s, p) ==
    LET before == p - 1 >= 1 /\ p - 1 <= Len(s) /\ IsWord(Chr(s, p - 1))
        after == p >= 1 /\ p <= Len(s) /\ IsWord(Chr(s, p))
    IN before # after

\* the elements of a sequence
Range(q) == {q[k] : k \in DOMAIN q}

\* the sequences of length <= n over S
SeqUpTo(S, n) == UNION {[1..k -> S] : k \in 0..n}

\* every ordering of the set S
Orderings(S) == {q \in [1..Cardinality(S) -> S] : Range(q) = S}

RECURSIVE JoinLines(_)
\* a text made of the lines q, one per line
JoinLines(q) ==
    IF Len(q) = 0 THEN ""
    ELSE IF Len(q) = 1 THEN q[1]
    ELSE q[1] \o "\n" \o JoinLines(Tail(q))

(***************************************************************************)
(* dict / defaultdict(list) in insertion order                             *)
(***************************************************************************)
DictKeys(d) == {d[k].key : k \in DOMAIN d}
\* d[key] = v: a new key goes last, a known key keeps its place
DictSet(d, key, v) ==
    IF \E k \in DOMAIN d : d[k].key = key
    THEN [k \in DOMAIN d |-> IF d[k].key = key THEN [key |-> key, val |-> v] ELSE d[k]]
    ELSE Append(d, [key |-> key, val |-> v])
\* d[key] for a key of d
DictGet(d, key) == d[CHOOSE k \in DOMAIN d : d[k].key = key].val
\* d[key].append(v) on a defaultdict(list)
DictAppend(d, key, v) ==
    IF key \in DictKeys(d)
    THEN [k \in DOMAIN d |-> IF d[k].key = key
                             THEN [key |-> key, val |-> Append(d[k].val, v)]
                             ELSE d[k]]
    ELSE Append(d, [key |-> key, val |-> <<v>>])

(***************************************************************************)
(* analyze_jcl_to_cobol.py                                                 *)
(***************************************************************************)
\* the files under --cobol-dir and --jcl-dir
CblDirFiles == {"proga.cbl", "SORT.cbl"}
JclDirFiles == {"A.jcl", "B.JCL", "C.jcl", "NOTES.txt"}
\* the lines a job-control text is made of
JclLines == {"//S1 EXEC PGM=PROGA", "//S2 EXEC PGM=SORT,PARM=1", "//S3 EXEC PGM=IDCAMS",
             "//S4 EXEC PGM=UNKNOWNX", "//* NO STEP"}

system_programs == {"IEFBR14", "IDCAMS", "SORT", "SDSF", "IEBGENER",
                    "IKJEFT01", "IKJEFT1B", "FTP", "DFHCSDUP"}

\* pattern PGM=([A-Z0-9]+) at position p
PgmAt(s, p) == LitAt(s, p, "PGM=") /\ p + 4 <= Len(s) /\ IsUpperAlnum(Chr(s, p + 4))

\* the job-control texts: up to MaxLines of the lines above
JclTexts == {JoinLines(q) : q \in SeqUpTo(JclLines, MaxLines)}

RECURSIVE FindAllPgm(_, _)
\* re.findall(pattern, jcl_content) from position `from` on
FindAllPgm(s, from) ==
    IF \E p \in from..Len(s) : PgmAt(s, p)
    THEN LET p == CHOOSE q \in from..Len(s) :
                      PgmAt(s, q) /\ \A r \in from..(q - 1) : ~PgmAt(s, r)
             e == UpperAlnumRunEnd(s, p + 4)
         IN <<SubSeq(s, p + 4, e - 1)>> \o FindAllPgm(s, e)
    ELSE <<>>

\* the elements of list(set(matches)); their order is chosen where the list is iterated
extract_pgm_from_jcl(jcl_content) == Range(FindAllPgm(jcl_content, 1))

\* extract_pgm_from_jcl on every text, evaluated once
ExtractedPgm == [t \in JclTexts |-> extract_pgm_from_jcl(t)]
\* what extract_pgm_from_jcl can return for the content of a job file
ExtractedPgmSets == {ExtractedPgm[t] : t \in JclTexts}

is_system_program(prog_name) == prog_name \in system_programs

\* Path.suffix and Path.stem of a file name
LastDot(name) ==
    IF InStr(".", name)
    THEN CHOOSE p \in 1..Len(name) :
             Chr(name, p) = "." /\ \A q \in (p + 1)..Len(name) : Chr(name, q) # "."
    ELSE 0
PathSuffix(name) == IF LastDot(name) > 1 THEN SubSeq(name, LastDot(name), Len(name)) ELSE ""
PathStem(name) == IF LastDot(name) > 1 THEN SubSeq(name, 1, LastDot(name) - 1) ELSE name

find_jcl_files(dir) == Sorted({p \in dir : StrUpper(PathSuffix(p)) \in {".JCL"}})

\* the indexes find_cobol_files can build: of two files with one identifier, the one
\* rglob yields last stays
find_cobol_files(dir) ==
    LET cbl == {p \in dir : PathSuffix(p) = ".cbl"}
        keys == {StrUpper(PathStem(p)) : p \in cbl}
    IN {idx \in [keys -> cbl] : \A k \in keys : StrUpper(PathStem(idx[k])) = k}

\* Classify with the utility test made before the index lookup
\* Classify with a utility taken for a program of the index
ClassifyMutUtilityResolved(prog_upper, index) ==
    IF prog_upper \in DOMAIN index \/ is_system_program(prog_upper) THEN "Resolved"
    ELSE "Unresolved"
ClassifyMutSystemFirst(prog_upper, index) ==
    IF is_system_program(prog_upper) THEN "SystemUtility"
    ELSE IF prog_upper \in DOMAIN index THEN "Resolved"
    ELSE "Unresolved"
\* the branch the loop body takes for one identifier (lines 149, 156, 160)
Classify(prog_upper, index) ==
    IF prog_upper \in DOMAIN index THEN "Resolved"
    ELSE IF is_system_program(prog_upper) THEN "SystemUtility"
    ELSE "Unresolved"

\* Count with the utility branch also counting as found
CountMutSystemAsFound(st, kind) ==
    IF kind = "Resolved" THEN [st EXCEPT !.found = @ + 1]
    ELSE IF kind = "SystemUtility" THEN [st EXCEPT !.system = @ + 1, !.found = @ + 1]
    ELSE [st EXCEPT !.missing = @ + 1]
\* stats[...] += 1 of the branch taken (lines 155, 159, 163)
Count(st, kind) ==
    IF kind = "Resolved" THEN [st EXCEPT !.found = @ + 1]
    ELSE IF kind = "SystemUtility" THEN [st EXCEPT !.system = @ + 1]
    ELSE [st EXCEPT !.missing = @ + 1]

RECURSIVE ExecEdges(_)
\* the graph.edge calls of lines 230-234
ExecEdges(j2c) ==
    IF Len(j2c) = 0 THEN <<>>
    ELSE [k \in 1..Len(j2c[1].val) |->
             [tail |-> "JCL_" \o j2c[1].key, head |-> "CBL_" \o j2c[1].val[k],
              label |-> "executes"]]
         \o ExecEdges(Tail(j2c))

\* the node calls of lines 219-220 and 226-227
JclNodes(j2c) ==
    LET keys == Sorted(DictKeys(j2c))
    IN [k \in 1..Len(keys) |->
           [name |-> "JCL_" \o keys[k],
            label |-> StrReplace(StrReplace(keys[k], ".jcl", ""), ".JCL", ""),
            cluster |-> "cluster_jcl"]]
CblNodes(c2j) ==
    LET keys == Sorted(DictKeys(c2j))
    IN [k \in 1..Len(keys) |->
           [name |-> "CBL_" \o keys[k], label |-> keys[k], cluster |-> "cluster_cobol"]]

\* the cbl_files listing of lines 173-179
CblFilesListing(c2j) ==
    LET keys == Sorted(DictKeys(c2j))
    IN [k \in 1..Len(keys) |-> [program |-> keys[k], jcl_files |-> DictGet(c2j, keys[k])]]

ScanInit ==
    /\ pc = "scan"
    /\ args_json \in BOOLEAN
    /\ \E dir \in SUBSET JclDirFiles :
          /\ jcl_files = find_jcl_files(dir)
          /\ Len(jcl_files) <= MaxJobs
    /\ unreadable \in SUBSET Range(jcl_files)
    /\ \E dir \in SUBSET CblDirFiles : cobol_index \in find_cobol_files(dir)
    /\ jcl_i = 1
    /\ jcl_name = ""
    /\ programs = <<>>
    /\ jcl_to_cobol = <<>>
    /\ cobol_to_jcl = <<>>
    /\ stats = [found |-> 0, system |-> 0, missing |-> 0]
    /\ jobdocs = <<>>
    /\ classified = {}
    /\ output_data = <<>>
    /\ graph = [nodes |-> <<>>, edges |-> <<>>]

ScanIdle ==
    /\ pc = "idle"
    /\ args_json = FALSE
    /\ unreadable = {}
    /\ cobol_index = <<>>
    /\ jcl_files = <<>>
    /\ jcl_i = 1
    /\ jcl_name = ""
    /\ programs = <<>>
    /\ jcl_to_cobol = <<>>
    /\ cobol_to_jcl = <<>>
    /\ stats = [found |-> 0, system |-> 0, missing |-> 0]
    /\ jobdocs = <<>>
    /\ classified = {}
    /\ output_data = <<>>
    /\ graph = [nodes |-> <<>>, edges |-> <<>>]

\* line 129: open() raises on a file that cannot be read, and nothing catches it
OpenFails ==
    /\ pc = "scan"
    /\ jcl_i <= Len(jcl_files)
    /\ jcl_files[jcl_i] \in unreadable
    /\ pc' = "crashed"
    /\ UNCHANGED <<args_json, unreadable, cobol_index, jcl_files, jcl_i, jcl_name, programs,
                   jcl_to_cobol, cobol_to_jcl, stats, jobdocs, classified, output_data, graph>>
    /\ UNCHANGED <<dep_vars, agg_vars, pgm_vars>>

\* lines 128-144: read one job file, whose content is any of JclTexts, and extract
\* its identifiers
ReadJcl ==
    /\ pc = "scan"
    /\ jcl_i <= Len(jcl_files)
    /\ jcl_files[jcl_i] \notin unreadable
    /\ \E progs \in ExtractedPgmSets :
          /\ jobdocs' = Append(jobdocs, [name |-> jcl_files[jcl_i], programs |-> progs])
          /\ IF progs = {}
             THEN /\ jcl_i' = jcl_i + 1
                  /\ UNCHANGED <<pc, programs, jcl_name>>
             ELSE /\ \E order \in Orderings(progs) : programs' = order
                  /\ jcl_name' = jcl_files[jcl_i]
                  /\ pc' = "classify"
                  /\ UNCHANGED jcl_i
    /\ UNCHANGED <<args_json, unreadable, cobol_index, jcl_files, jcl_to_cobol, cobol_to_jcl,
                   stats, classified, output_data, graph>>
    /\ UNCHANGED <<dep_vars, agg_vars, pgm_vars>>

\* lines 146-163: one iteration of the classification loop
ClassifyProg ==
    /\ pc = "classify"
    /\ programs # <<>>
    /\ LET prog_upper == StrUpper(Head(programs))
           kind == Classify(prog_upper, cobol_index)
       IN /\ IF kind = "Resolved"
             THEN /\ jcl_to_cobol' = DictAppend(jcl_to_cobol, jcl_name, prog_upper)
                  /\ cobol_to_jcl' = DictAppend(cobol_to_jcl, prog_upper, jcl_name)
             ELSE UNCHANGED <<jcl_to_cobol, cobol_to_jcl>>
          /\ stats' = Count(stats, kind)
          /\ classified' = classified \cup
                               {[jcl |-> jcl_name, prog |-> prog_upper, kind |-> kind]}
    /\ programs' = Tail(programs)
    /\ IF Tail(programs) = <<>>
       THEN pc' = "scan" /\ jcl_i' = jcl_i + 1
       ELSE UNCHANGED <<pc, jcl_i>>
    /\ UNCHANGED <<args_json, unreadable, cobol_index, jcl_files, jcl_name, jobdocs,
                   output_data, graph>>
    /\ UNCHANGED <<dep_vars, agg_vars, pgm_vars>>

\* lines 169-182: the mapping artifact
EmitJson ==
    /\ pc = "scan"
    /\ jcl_i > Len(jcl_files)
    /\ args_json
    /\ output_data' = <<[statistics |-> stats, cbl_files |-> CblFilesListing(cobol_to_jcl)]>>
    /\ pc' = "done"
    /\ UNCHANGED <<args_json, unreadable, cobol_index, jcl_files, jcl_i, jcl_name, programs,
                   jcl_to_cobol, cobol_to_jcl, stats, jobdocs, classified, graph>>
    /\ UNCHANGED <<dep_vars, agg_vars, pgm_vars>>

\* lines 204-242: the rendered graph
RenderGraph ==
    /\ pc = "scan"
    /\ jcl_i > Len(jcl_files)
    /\ ~args_json
    /\ graph' = [nodes |-> JclNodes(jcl_to_cobol) \o CblNodes(cobol_to_jcl),
                 edges |-> ExecEdges(jcl_to_cobol)]
    /\ pc' = "done"
    /\ UNCHANGED <<args_json, unreadable, cobol_index, jcl_files, jcl_i, jcl_name, programs,
                   jcl_to_cobol, cobol_to_jcl, stats, jobdocs, classified, output_data>>
    /\ UNCHANGED <<dep_vars, agg_vars, pgm_vars>>

ScanNext == OpenFails \/ ReadJcl \/ ClassifyProg \/ EmitJson \/ RenderGraph

(***************************************************************************)
(* generate_dependency_graph_json.py                                       *)
(***************************************************************************)
\* the program names and job names of the mapping artifact read at lines 30-31
DepPrograms == {"PROGA", "PROGB"}
DepJclNames == {"PROGA.jcl", "A.B.jcl", "A_B.jcl"}
DepEntries == {[program |-> p, jcl_files |-> q] :
                  p \in DepPrograms, q \in SeqUpTo(DepJclNames, MaxJclRefs)}

\* line 66
JclId(jcl_file) == StrReplace(StrReplace(jcl_file, ".jcl", ""), ".", "_")

\* lines 53-59
AddProgramNode(nodes, program_info) ==
    Append(nodes, [id |-> program_info.program, type |-> "program",
                   label |-> program_info.program, jcl_files |-> program_info.jcl_files])

\* lines 69-74
AddJclNode(nodes, jcl_file) ==
    IF ~\E k \in DOMAIN nodes : nodes[k].id = JclId(jcl_file)
    THEN Append(nodes, [id |-> JclId(jcl_file), type |-> "jcl", label |-> jcl_file])
    ELSE nodes

\* lines 77-81
AddExecEdge(edges, jcl_file, program_name) ==
    Append(edges, [source |-> JclId(jcl_file), target |-> program_name,
                   relationship |-> "executes"])

\* lines 86-94
Summary(m, with, without) ==
    [total_programs |-> Len(m),
     programs_with_jcl |-> Len(with),
     programs_without_jcl |-> Len(without),
     total_jcl_files |-> Cardinality(UNION {Range(m[k].jcl_files) : k \in DOMAIN m})]

DepInit ==
    /\ dep_pc = "program"
    /\ mappings \in SeqUpTo(DepEntries, MaxEntries)
    /\ dep_i = 1
    /\ dep_j = 1
    /\ dep_graph = [nodes |-> <<>>, edges |-> <<>>]
    /\ programs_with_jcl = <<>>
    /\ programs_without_jcl = <<>>
    /\ summary = <<>>

DepIdle ==
    /\ dep_pc = "idle"
    /\ mappings = <<>>
    /\ dep_i = 1
    /\ dep_j = 1
    /\ dep_graph = [nodes |-> <<>>, edges |-> <<>>]
    /\ programs_with_jcl = <<>>
    /\ programs_without_jcl = <<>>
    /\ summary = <<>>

\* lines 48-62 and 82-83: the node of one program entry
DepAddProgram ==
    /\ dep_pc = "program"
    /\ dep_i <= Len(mappings)
    /\ LET program_info == mappings[dep_i]
       IN /\ dep_graph' = [dep_graph EXCEPT !.nodes = AddProgramNode(@, program_info)]
          /\ IF program_info.jcl_files # <<>>
             THEN /\ programs_with_jcl' = Append(programs_with_jcl, program_info.program)
                  /\ dep_pc' = "jcl"
                  /\ dep_j' = 1
                  /\ UNCHANGED <<programs_without_jcl, dep_i>>
             ELSE /\ programs_without_jcl' = Append(programs_without_jcl, program_info.program)
                  /\ dep_i' = dep_i + 1
                  /\ UNCHANGED <<programs_with_jcl, dep_pc, dep_j>>
    /\ UNCHANGED <<mappings, summary>>
    /\ UNCHANGED <<scan_vars, agg_vars, pgm_vars>>

\* lines 65-81: the node and the edge of one job name of the entry
DepAddJcl ==
    /\ dep_pc = "jcl"
    /\ LET program_name == mappings[dep_i].program
           jcl_file == mappings[dep_i].jcl_files[dep_j]
       IN dep_graph' = [nodes |-> AddJclNode(dep_graph.nodes, jcl_file),
                        edges |-> AddExecEdge(dep_graph.edges, jcl_file, program_name)]
    /\ IF dep_j = Len(mappings[dep_i].jcl_files)
       THEN dep_pc' = "program" /\ dep_i' = dep_i + 1 /\ UNCHANGED dep_j
       ELSE dep_j' = dep_j + 1 /\ UNCHANGED <<dep_pc, dep_i>>
    /\ UNCHANGED <<mappings, programs_with_jcl, programs_without_jcl, summary>>
    /\ UNCHANGED <<scan_vars, agg_vars, pgm_vars>>

\* lines 86-103: the summary, and the graph file is written
DepSummary ==
    /\ dep_pc = "program"
    /\ dep_i > Len(mappings)
    /\ summary' = <<Summary(mappings, programs_with_jcl, programs_without_jcl)>>
    /\ dep_pc' = "done"
    /\ UNCHANGED <<mappings, dep_i, dep_j, dep_graph, programs_with_jcl, programs_without_jcl>>
    /\ UNCHANGED <<scan_vars, agg_vars, pgm_vars>>

DepNext == DepAddProgram \/ DepAddJcl \/ DepSummary

(***************************************************************************)
(* generate_graph_from_aggregated.py                                       *)
(***************************************************************************)
\* the statements a program text is made of
CobolStmts == {"SELECT FA ASSIGN TO DA", "select FB assign to DB",
               "ORGANIZATION IS INDEXED", "ACCESS MODE IS RANDOM",
               "OPEN INPUT FA FB", "OPEN OUTPUT FA", "OPEN EXTEND FB"}
CobolTexts == {JoinLines(q) : q \in SeqUpTo(CobolStmts, MaxStmts)}
CopybookNames == {"CPYA", "CPYB"}
\* the jclExecutionContext key: absent, a job without a name, a named job
JclContexts == {<<>>, <<[job |-> <<>>]>>, <<[job |-> <<"JOBX">>]>>}
AggregatedFiles == {"PROGA-aggregated.json"}

IsSpaceAt(s, p) == p >= 1 /\ p <= Len(s) /\ IsSpace(Chr(s, p))

RECURSIVE MatchWords(_, _, _)
\* the pattern W1\s+W2\s+...Wn\s+ (re.IGNORECASE) at position p: the position after
\* it, or 0 when it does not match there
MatchWords(s, p, words) ==
    IF words = <<>> THEN p
    ELSE LET e == p + Len(Head(words))
         IN IF LitAtCI(s, p, Head(words)) /\ IsSpaceAt(s, e)
            THEN MatchWords(s, SpaceRunEnd(s, e), Tail(words))
            ELSE 0

\* the pattern W1\s+...Wn\s+(\S+) at position p: <<[group, end]>>, or <<>>
MatchWordsGroup(s, p, words) ==
    LET h == MatchWords(s, p, words)
    IN IF h # 0 /\ h <= Len(s)
       THEN <<[group |-> SubSeq(s, h, NonSpaceRunEnd(s, h) - 1), end |-> NonSpaceRunEnd(s, h)]>>
       ELSE <<>>

\* select_pattern SELECT\s+(\S+)\s+ASSIGN\s+TO\s+(\S+) at position p:
\* <<[file_name, assign_to, end]>>, or <<>>
SelectAt(s, p) ==
    LET g1 == MatchWordsGroup(s, p, <<"SELECT">>)
    IN IF g1 # <<>> /\ IsSpaceAt(s, g1[1].end)
       THEN LET g2 == MatchWordsGroup(s, SpaceRunEnd(s, g1[1].end), <<"ASSIGN", "TO">>)
            IN IF g2 # <<>>
               THEN <<[file_name |-> g1[1].group, assign_to |-> g2[1].group,
                       end |-> g2[1].end]>>
               ELSE <<>>
       ELSE <<>>

\* re.search of W1\s+...Wn\s+(\S+): group(1) of the first match, as <<group>>, or <<>>
SearchGroup(s, words) ==
    IF \E p \in 1..Len(s) : MatchWordsGroup(s, p, words) # <<>>
    THEN LET p == CHOOSE q \in 1..Len(s) :
                      /\ MatchWordsGroup(s, q, words) # <<>>
                      /\ \A r \in 1..(q - 1) : MatchWordsGroup(s, r, words) = <<>>
         IN <<MatchWordsGroup(s, p, words)[1].group>>
    ELSE <<>>

\* lines 44-49: the text in which the properties of the declaration ending at
\* select_end are searched
SectionText(text, select_end) ==
    LET next_select_start == StrFind(text, "SELECT", select_end)
    IN IF next_select_start = 0
       THEN SubSeq(text, select_end, Len(text))
       ELSE SubSeq(text, select_end, next_select_start - 1)

\* lines 52-62: the entry of one declaration
FileInfo(text, m) ==
    LET section_text == SectionText(text, m.end)
        org_match == SearchGroup(section_text, <<"ORGANIZATION", "IS">>)
        access_match == SearchGroup(section_text, <<"ACCESS", "MODE", "IS">>)
    IN [assign_to |-> StrUpper(m.assign_to),
        organization |-> IF org_match # <<>> THEN StrUpper(org_match[1]) ELSE "SEQUENTIAL",
        access_mode |-> IF access_match # <<>> THEN StrUpper(access_match[1])
                        ELSE "SEQUENTIAL"]

RECURSIVE SelectsFrom(_, _, _)
\* lines 37-62: the loop over re.finditer(select_pattern, text), from position `from`
SelectsFrom(text, from, acc) ==
    IF \E p \in from..Len(text) : SelectAt(text, p) # <<>>
    THEN LET p == CHOOSE q \in from..Len(text) :
                      /\ SelectAt(text, q) # <<>>
                      /\ \A r \in from..(q - 1) : SelectAt(text, r) = <<>>
             m == SelectAt(text, p)[1]
         IN SelectsFrom(text, m.end, DictSet(acc, StrUpper(m.file_name), FileInfo(text, m)))
    ELSE acc

extract_files_from_cobol_text(text) == SelectsFrom(text, 1, <<>>)

\* OPEN\s+<direction>\s+<file_name>\b is found in text; file_name holds no character
\* that is special in a pattern
OpenFound(text, direction, file_name) ==
    \E p \in 1..Len(text) :
        LET h == MatchWords(text, p, <<"OPEN", direction>>)
        IN /\ h # 0
           /\ LitAtCI(text, h, file_name)
           /\ WordBoundary(text, h + Len(file_name))

extract_file_type_from_fd(text, file_name) ==
    IF OpenFound(text, "INPUT", file_name) THEN "INPUT"
    ELSE IF OpenFound(text, "OUTPUT", file_name) THEN "OUTPUT"
    ELSE IF OpenFound(text, "EXTEND", file_name) THEN "EXTEND"
    ELSE "UNKNOWN"

\* both extractions on every text, evaluated once
ExtractedFiles == [t \in CobolTexts |-> extract_files_from_cobol_text(t)]
ExtractedType ==
    [t \in CobolTexts |->
        [f \in DictKeys(ExtractedFiles[t]) |-> extract_file_type_from_fd(t, f)]]

\* line 104
ProgramName(path) == StrReplace(PathStem(path), "-aggregated", "")

\* lines 175-187, 195-207, 215-227: the node and edge calls of one cluster
ClusterNodes(prefix, cluster, fs) ==
    [k \in 1..Len(fs) |->
        [name |-> prefix \o fs[k].key,
         label |-> fs[k].key \o "\n(" \o fs[k].val.organization \o ")",
         cluster |-> cluster]]
\* InputEdges with the edge drawn from the program to the file
InputEdgesMutReversed(fs, program_name) ==
    [k \in 1..Len(fs) |->
        [tail |-> "PGM_" \o program_name, head |-> "FILE_IN_" \o fs[k].key, label |-> "READ"]]
InputEdges(fs, program_name) ==
    [k \in 1..Len(fs) |->
        [tail |-> "FILE_IN_" \o fs[k].key, head |-> "PGM_" \o program_name, label |-> "READ"]]
OutputEdges(fs, program_name) ==
    [k \in 1..Len(fs) |->
        [tail |-> "PGM_" \o program_name, head |-> "FILE_OUT_" \o fs[k].key,
         label |-> "WRITE"]]
ExtendEdges(fs, program_name) ==
    [k \in 1..Len(fs) |->
        [tail |-> "PGM_" \o program_name, head |-> "FILE_EXT_" \o fs[k].key,
         label |-> "EXTEND"]]

\* lines 238-251
CopybookNodes(copybooks_list) ==
    [k \in 1..Len(copybooks_list) |->
        [name |-> "CPY_" \o copybooks_list[k], label |-> "COPY\n" \o copybooks_list[k],
         cluster |-> "cluster_copybooks"]]
CopybookEdges(copybooks_list, program_name) ==
    [k \in 1..Len(copybooks_list) |->
        [tail |-> "CPY_" \o copybooks_list[k], head |-> "PGM_" \o program_name,
         label |-> "includes"]]

AggInit ==
    /\ agg_pc = "start"
    /\ data \in [path : AggregatedFiles, text : CobolTexts,
                 copybooks : SeqUpTo(CopybookNames, MaxCopybooks), jcl : JclContexts]
    /\ files = <<>>
    /\ files_i = 1
    /\ input_files = <<>>
    /\ output_files = <<>>
    /\ extend_files = <<>>
    /\ agg_stats = [program |-> 0, input_files |-> 0, output_files |-> 0, extend_files |-> 0,
                    copybooks |-> 0, jcl_context |-> 0]
    /\ agg_graph = [nodes |-> <<>>, edges |-> <<>>]

AggIdle ==
    /\ agg_pc = "idle"
    /\ data = [path |-> "", text |-> "", copybooks |-> <<>>, jcl |-> <<>>]
    /\ files = <<>>
    /\ files_i = 1
    /\ input_files = <<>>
    /\ output_files = <<>>
    /\ extend_files = <<>>
    /\ agg_stats = [program |-> 0, input_files |-> 0, output_files |-> 0, extend_files |-> 0,
                    copybooks |-> 0, jcl_context |-> 0]
    /\ agg_graph = [nodes |-> <<>>, edges |-> <<>>]

\* lines 104-151: the program node, the statistics, the declared files
AggStart ==
    /\ agg_pc = "start"
    /\ agg_stats' = [agg_stats EXCEPT !.copybooks = Len(data.copybooks), !.program = 1]
    /\ agg_graph' = [agg_graph EXCEPT !.nodes =
                        Append(@, [name |-> "PGM_" \o ProgramName(data.path),
                                   label |-> ProgramName(data.path) \o "\n(COBOL Program)",
                                   cluster |-> ""])]
    /\ files' = ExtractedFiles[data.text]
    /\ agg_pc' = IF ExtractedFiles[data.text] # <<>> THEN "classify" ELSE "copybooks"
    /\ UNCHANGED <<data, files_i, input_files, output_files, extend_files>>
    /\ UNCHANGED <<scan_vars, dep_vars, pgm_vars>>

\* lines 156-167: one iteration of the loop over files.items()
AggClassifyFile ==
    /\ agg_pc = "classify"
    /\ files_i <= Len(files)
    /\ LET file_name == files[files_i].key
           file_type == ExtractedType[data.text][file_name]
       IN /\ input_files' = IF file_type = "INPUT"
                            THEN Append(input_files, files[files_i]) ELSE input_files
          /\ output_files' = IF file_type = "OUTPUT"
                             THEN Append(output_files, files[files_i]) ELSE output_files
          /\ extend_files' = IF file_type = "EXTEND"
                             THEN Append(extend_files, files[files_i]) ELSE extend_files
          /\ agg_stats' =
                 IF file_type = "INPUT" THEN [agg_stats EXCEPT !.input_files = @ + 1]
                 ELSE IF file_type = "OUTPUT" THEN [agg_stats EXCEPT !.output_files = @ + 1]
                 ELSE IF file_type = "EXTEND" THEN [agg_stats EXCEPT !.extend_files = @ + 1]
                 ELSE agg_stats
    /\ files_i' = files_i + 1
    /\ agg_pc' = IF files_i = Len(files) THEN "inputs" ELSE agg_pc
    /\ UNCHANGED <<data, files, agg_graph>>
    /\ UNCHANGED <<scan_vars, dep_vars, pgm_vars>>

\* lines 170-187
AggInputCluster ==
    /\ agg_pc = "inputs"
    /\ agg_graph' =
           [nodes |-> agg_graph.nodes \o ClusterNodes("FILE_IN_", "cluster_inputs", input_files),
            edges |-> agg_graph.edges \o InputEdges(input_files, ProgramName(data.path))]
    /\ agg_pc' = "outputs"
    /\ UNCHANGED <<data, files, files_i, input_files, output_files, extend_files, agg_stats>>
    /\ UNCHANGED <<scan_vars, dep_vars, pgm_vars>>

\* lines 190-207
AggOutputCluster ==
    /\ agg_pc = "outputs"
    /\ agg_graph' =
           [nodes |-> agg_graph.nodes
                      \o ClusterNodes("FILE_OUT_", "cluster_outputs", output_files),
            edges |-> agg_graph.edges \o OutputEdges(output_files, ProgramName(data.path))]
    /\ agg_pc' = "extends"
    /\ UNCHANGED <<data, files, files_i, input_files, output_files, extend_files, agg_stats>>
    /\ UNCHANGED <<scan_vars, dep_vars, pgm_vars>>

\* lines 210-227
AggExtendCluster ==
    /\ agg_pc = "extends"
    /\ agg_graph' =
           [nodes |-> agg_graph.nodes
                      \o ClusterNodes("FILE_EXT_", "cluster_extends", extend_files),
            edges |-> agg_graph.edges \o ExtendEdges(extend_files, ProgramName(data.path))]
    /\ agg_pc' = "copybooks"
    /\ UNCHANGED <<data, files, files_i, input_files, output_files, extend_files, agg_stats>>
    /\ UNCHANGED <<scan_vars, dep_vars, pgm_vars>>

\* lines 232-251
AggCopybooks ==
    /\ agg_pc = "copybooks"
    /\ agg_graph' =
           [nodes |-> agg_graph.nodes \o CopybookNodes(data.copybooks),
            edges |-> agg_graph.edges \o CopybookEdges(data.copybooks, ProgramName(data.path))]
    /\ agg_pc' = "jcl"
    /\ UNCHANGED <<data, files, files_i, input_files, output_files, extend_files, agg_stats>>
    /\ UNCHANGED <<scan_vars, dep_vars, pgm_vars>>

\* lines 256-278, and the graph is rendered (lines 283-305)
AggJclContext ==
    /\ agg_pc = "jcl"
    /\ IF data.jcl # <<>>
       THEN LET job == data.jcl[1].job
                job_name == IF job # <<>> THEN job[1] ELSE "UNKNOWN_JOB"
            IN /\ agg_graph' =
                      [nodes |-> Append(agg_graph.nodes,
                                        [name |-> "JCL_JOB", label |-> job_name \o "\n(JCL Job)",
                                         cluster |-> ""]),
                       edges |-> Append(agg_graph.edges,
                                        [tail |-> "JCL_JOB",
                                         head |-> "PGM_" \o ProgramName(data.path),
                                         label |-> "executes"])]
               /\ agg_stats' = [agg_stats EXCEPT !.jcl_context = 1]
       ELSE UNCHANGED <<agg_graph, agg_stats>>
    /\ agg_pc' = "done"
    /\ UNCHANGED <<data, files, files_i, input_files, output_files, extend_files>>
    /\ UNCHANGED <<scan_vars, dep_vars, pgm_vars>>

AggNext ==
    \/ AggStart
    \/ AggClassifyFile
    \/ AggInputCluster
    \/ AggOutputCluster
    \/ AggExtendCluster
    \/ AggCopybooks
    \/ AggJclContext

(***************************************************************************)
(* Specifications: one per script                                          *)
(***************************************************************************)
\* ---------------------------------------------------------------------------
\* extract_pgm_from_jcl as a function of its argument
\* ---------------------------------------------------------------------------

\* job-control lines for the function alone: those of the scan, and two steps whose
\* program names carry the national characters # and $ that JCL allows in names
PgmLines == JclLines \cup {"//S5 EXEC PGM=PAY#01", "//S6 EXEC PGM=$UTIL"}
PgmTexts == {JoinLines(q) : q \in SeqUpTo(PgmLines, MaxLines)}

PgmInit ==
    /\ pgm_pc = "findall"
    /\ pgm_input \in PgmTexts
    /\ matches = <<>>
    /\ pgm_result = <<>>
PgmIdle ==
    /\ pgm_pc = "idle"
    /\ pgm_input = ""
    /\ matches = <<>>
    /\ pgm_result = <<>>

\* matches = re.findall(pattern, jcl_content)
PgmFindAll ==
    /\ pgm_pc = "findall"
    /\ matches' = FindAllPgm(pgm_input, 1)
    /\ pgm_pc' = "listset"
    /\ UNCHANGED <<pgm_input, pgm_result, scan_vars, dep_vars, agg_vars>>

\* return list(set(matches)): the elements once each, in the order the set yields
PgmListSet ==
    /\ pgm_pc = "listset"
    /\ pgm_result' \in Orderings(Range(matches))
    /\ pgm_pc' = "done"
    /\ UNCHANGED <<pgm_input, matches, scan_vars, dep_vars, agg_vars>>

PgmNext == PgmFindAll \/ PgmListSet

Init == ScanInit /\ DepIdle /\ AggIdle /\ PgmIdle
Next == ScanNext
Spec == Init /\ [][Next]_vars

InitDep == ScanIdle /\ DepInit /\ AggIdle /\ PgmIdle
SpecDep == InitDep /\ [][DepNext]_vars

InitAgg == ScanIdle /\ DepIdle /\ AggInit /\ PgmIdle
SpecAgg == InitAgg /\ [][AggNext]_vars

InitPgm == ScanIdle /\ DepIdle /\ AggIdle /\ PgmInit
SpecPgm == InitPgm /\ [][PgmNext]_vars

(***************************************************************************)
(* Properties                                                              *)
(***************************************************************************)
RECURSIVE SumDistinct(_)
\* the number of distinct identifiers extracted, summed over the job files read
SumDistinct(docs) ==
    IF Len(docs) = 0 THEN 0
    ELSE Cardinality(docs[1].programs) + SumDistinct(Tail(docs))

KindCount(kind) == Cardinality({c \in classified : c.kind = kind})

\* C1: every identifier the classification loop of main() handles gets exactly one
\* of Resolved, SystemUtility, Unresolved; Resolved only for a key of the index,
\* SystemUtility only for a member of the utility set that is no key of the index,
\* Unresolved only for an identifier in neither; and every identifier extracted
\* from a job whose loop has ended has been classified.
C1_ClassificationTotal ==
    /\ \A c \in classified :
          /\ c.kind \in {"Resolved", "SystemUtility", "Unresolved"}
          /\ c.kind = "Resolved" => c.prog \in DOMAIN cobol_index
          /\ c.kind = "SystemUtility" =>
                 c.prog \in system_programs /\ c.prog \notin DOMAIN cobol_index
          /\ c.kind = "Unresolved" =>
                 c.prog \notin system_programs /\ c.prog \notin DOMAIN cobol_index
    /\ \A c, d \in classified : (c.jcl = d.jcl /\ c.prog = d.prog) => c.kind = d.kind
    /\ \A k \in DOMAIN jobdocs :
          k < jcl_i =>
              \A p \in jobdocs[k].programs :
                  StrUpper(p) \in {c.prog : c \in {d \in classified : d.jcl = jobdocs[k].name}}

\* C1 witness: an identifier that is a key of the index and a member of the utility
\* set has been classified, as Resolved, beside a SystemUtility and an Unresolved one.
C1_Witness ==
    /\ \E c \in classified :
          c.prog \in system_programs /\ c.prog \in DOMAIN cobol_index /\ c.kind = "Resolved"
    /\ \E c \in classified : c.kind = "SystemUtility"
    /\ \E c \in classified : c.kind = "Unresolved"

\* C4: each (job, distinct identifier) pair increments exactly one of found, system,
\* missing, once: each counter equals the number of pairs classified that way, between
\* two jobs and at the end their sum is the number of distinct identifiers extracted
\* summed over the jobs read, and one job PGM=PROGA with PROGA in the index ends with
\* found=1, system=0, missing=0.
C4_CountersOncePerPair ==
    /\ stats.found = KindCount("Resolved")
    /\ stats.system = KindCount("SystemUtility")
    /\ stats.missing = KindCount("Unresolved")
    /\ pc \in {"scan", "done"} =>
           stats.found + stats.system + stats.missing = SumDistinct(jobdocs)
    /\ extract_pgm_from_jcl("PGM=PROGA") = {"PROGA"}
    /\ (/\ pc = "done"
        /\ Len(jobdocs) = 1
        /\ jobdocs[1].programs = {"PROGA"}
        /\ "PROGA" \in DOMAIN cobol_index)
       => stats = [found |-> 1, system |-> 0, missing |-> 0]

\* C4 witness: a scan of two jobs has ended with every counter incremented.
C4_Witness ==
    /\ pc = "done"
    /\ Len(jobdocs) = 2
    /\ stats.found >= 1
    /\ stats.system >= 1
    /\ stats.missing >= 1
    /\ stats.found + stats.system + stats.missing >= 4

\* ---- the final graphs
NodesShareIdAndType(nodes) ==
    \E a, b \in DOMAIN nodes :
        a # b /\ nodes[a].id = nodes[b].id /\ nodes[a].type = nodes[b].type

\* C2: in the graph assembled from any mapping input, no two nodes share both the
\* same identifier and the same type tag.
C2_NodeUniqueness == dep_pc = "done" => ~NodesShareIdAndType(dep_graph.nodes)

\* C3: a (job, program) executes relationship given more than once yields exactly
\* one executes edge with that source and target in the final graph.
C3_EdgeDeduplicated ==
    dep_pc = "done" =>
        \A a, b \in DOMAIN dep_graph.edges :
            (/\ dep_graph.edges[a].source = dep_graph.edges[b].source
             /\ dep_graph.edges[a].target = dep_graph.edges[b].target
             /\ dep_graph.edges[a].relationship = dep_graph.edges[b].relationship)
            => a = b

\* C5: every job-control file that was scanned has a Job node in the final graph,
\* also a job without any resolved reference.
C5_EveryJobHasNode ==
    (pc = "done" /\ ~args_json) =>
        \A k \in DOMAIN jobdocs :
            \E n \in DOMAIN graph.nodes : graph.nodes[n].name = "JCL_" \o jobdocs[k].name

\* C8: a job-control file that cannot be read does not abort the scan: the scan ends
\* normally and every other job-control file has been read and extracted.
C8_UnreadableFileSkipped ==
    /\ pc # "crashed"
    /\ pc = "done" =>
           \A k \in DOMAIN jcl_files :
               jcl_files[k] \notin unreadable =>
                   \E d \in DOMAIN jobdocs : jobdocs[d].name = jcl_files[k]

\* ---- program texts read statement by statement
RECURSIVE SplitOn(_, _)
\* the pieces of s between the separator characters
SplitOn(s, seps) ==
    IF Len(s) = 0 THEN <<>>
    ELSE IF Chr(s, 1) \in seps THEN SplitOn(SubSeq(s, 2, Len(s)), seps)
    ELSE LET e == CHOOSE j \in 2..(Len(s) + 1) :
                      /\ (j = Len(s) + 1 \/ Chr(s, j) \in seps)
                      /\ \A k \in 1..(j - 1) : Chr(s, k) \notin seps
         IN <<SubSeq(s, 1, e - 1)>> \o SplitOn(SubSeq(s, e, Len(s)), seps)
\* the statements of a text, each as its words in upper case
Statements(text) ==
    LET lines == SplitOn(text, {"\n"})
    IN [k \in DOMAIN lines |->
           LET w == SplitOn(lines[k], {" "}) IN [i \in DOMAIN w |-> StrUpper(w[i])]]
\* the statements of every text, evaluated once
StatementsOf == [t \in CobolTexts |-> Statements(t)]

\* the file names the OPEN <direction> statements of the text name, at any operand
OpenOperands(text, direction) ==
    LET st == StatementsOf[text]
    IN UNION {{st[k][i] : i \in 3..Len(st[k])} :
                 k \in {j \in DOMAIN st :
                           Len(st[j]) >= 3 /\ st[j][1] = "OPEN" /\ st[j][2] = direction}}
ReferencedDirection(text, file_name) ==
    IF file_name \in OpenOperands(text, "INPUT") THEN "INPUT"
    ELSE IF file_name \in OpenOperands(text, "OUTPUT") THEN "OUTPUT"
    ELSE IF file_name \in OpenOperands(text, "EXTEND") THEN "EXTEND"
    ELSE "UNKNOWN"

IsDeclaration(st) == Len(st) >= 5 /\ st[1] = "SELECT" /\ st[3] = "ASSIGN" /\ st[4] = "TO"
\* the value of the first clause `words <value>` among the statements between the
\* last declaration of file_name and the next declaration, or SEQUENTIAL
WindowProperty(text, file_name, words) ==
    LET st == StatementsOf[text]
        decl == CHOOSE i \in DOMAIN st :
                    /\ IsDeclaration(st[i]) /\ st[i][2] = file_name
                    /\ \A j \in (i + 1)..Len(st) :
                           ~(IsDeclaration(st[j]) /\ st[j][2] = file_name)
        last == IF \E j \in (decl + 1)..Len(st) : IsDeclaration(st[j])
                THEN (CHOOSE j \in (decl + 1)..Len(st) :
                          /\ IsDeclaration(st[j])
                          /\ \A r \in (decl + 1)..(j - 1) : ~IsDeclaration(st[r])) - 1
                ELSE Len(st)
        isClause(j) == Len(st[j]) = Len(words) + 1 /\ SubSeq(st[j], 1, Len(words)) = words
    IN IF \E j \in (decl + 1)..last : isClause(j)
       THEN st[CHOOSE j \in (decl + 1)..last :
                   isClause(j) /\ \A r \in (decl + 1)..(j - 1) : ~isClause(r)][Len(words) + 1]
       ELSE "SEQUENTIAL"

\* both readings on every text, evaluated once
ReferencedType ==
    [t \in CobolTexts |->
        [f \in DictKeys(ExtractedFiles[t]) |-> ReferencedDirection(t, f)]]
WindowInfo ==
    [t \in CobolTexts |->
        [f \in DictKeys(ExtractedFiles[t]) |->
            [organization |-> WindowProperty(t, f, <<"ORGANIZATION", "IS">>),
             access_mode |-> WindowProperty(t, f, <<"ACCESS", "MODE", "IS">>)]]]

\* the direction the classification loop recorded for an entry of files
RecordedDirection(entry) ==
    IF entry \in Range(input_files) THEN "INPUT"
    ELSE IF entry \in Range(output_files) THEN "OUTPUT"
    ELSE IF entry \in Range(extend_files) THEN "EXTEND"
    ELSE "UNKNOWN"
Classified == agg_pc \in {"inputs", "outputs", "extends", "copybooks", "jcl", "done"}

FileNodeNames(file_name) ==
    {"FILE_IN_" \o file_name, "FILE_OUT_" \o file_name, "FILE_EXT_" \o file_name}
\* a node drawn for the file of this entry
HasFileNode(entry) ==
    \E n \in DOMAIN agg_graph.nodes :
        agg_graph.nodes[n].label = entry.key \o "\n(" \o entry.val.organization \o ")"

\* C6: a declared file whose direction is UNKNOWN has a File node in the assembled
\* graph and no reads, writes or extends edge.
C6_UnknownFileKeepsNode ==
    agg_pc = "done" =>
        \A k \in DOMAIN files :
            RecordedDirection(files[k]) = "UNKNOWN" =>
                /\ HasFileNode(files[k])
                /\ \A e \in DOMAIN agg_graph.edges :
                       /\ agg_graph.edges[e].tail \notin FileNodeNames(files[k].key)
                       /\ agg_graph.edges[e].head \notin FileNodeNames(files[k].key)

\* C7: a fragment listed more than once has exactly one includes edge to the
\* program, and the fragment count is the number of entries of the list.
C7_IncludesDeduplicated ==
    agg_pc = "done" =>
        /\ agg_stats.copybooks = Len(data.copybooks)
        /\ \A c \in Range(data.copybooks) :
               Cardinality({e \in DOMAIN agg_graph.edges :
                               /\ agg_graph.edges[e].tail = "CPY_" \o c
                               /\ agg_graph.edges[e].head = "PGM_" \o ProgramName(data.path)
                               /\ agg_graph.edges[e].label = "includes"}) = 1

\* C9: the direction of a declared file is INPUT if an OPEN INPUT statement of the
\* text names it (at any operand), else OUTPUT if an OPEN OUTPUT statement does, else
\* EXTEND if an OPEN EXTEND statement does, else UNKNOWN.
C9_DirectionByPriority ==
    Classified =>
        \A k \in DOMAIN files :
            RecordedDirection(files[k]) = ReferencedType[data.text][files[k].key]

\* C10: the organization and the access mode of a declared file are those of the
\* clauses between its declaration and the next declaration, whatever its letter
\* case, and SEQUENTIAL without such a clause.
C10_PropertiesFromOwnWindow ==
    agg_pc \notin {"idle", "start"} =>
        \A k \in DOMAIN files :
            /\ files[k].val.organization = WindowInfo[data.text][files[k].key].organization
            /\ files[k].val.access_mode = WindowInfo[data.text][files[k].key].access_mode

\* the edges READ, WRITE, EXTEND with the file of this name at one end
DirectionalEdges(file_name) ==
    {e \in DOMAIN agg_graph.edges :
        /\ agg_graph.edges[e].label \in {"READ", "WRITE", "EXTEND"}
        /\ \/ agg_graph.edges[e].tail \in FileNodeNames(file_name)
           \/ agg_graph.edges[e].head \in FileNodeNames(file_name)}
\* the one edge and the node name a direction asks for
DirectionEdge(direction, file_name, program_name) ==
    IF direction = "INPUT"
    THEN [tail |-> "FILE_IN_" \o file_name, head |-> "PGM_" \o program_name, label |-> "READ"]
    ELSE IF direction = "OUTPUT"
    THEN [tail |-> "PGM_" \o program_name, head |-> "FILE_OUT_" \o file_name,
          label |-> "WRITE"]
    ELSE [tail |-> "PGM_" \o program_name, head |-> "FILE_EXT_" \o file_name,
          label |-> "EXTEND"]
DirectionNode(direction, file_name) ==
    IF direction = "INPUT" THEN "FILE_IN_" \o file_name
    ELSE IF direction = "OUTPUT" THEN "FILE_OUT_" \o file_name
    ELSE "FILE_EXT_" \o file_name

\* C11: a declared file whose inferred direction is INPUT, OUTPUT or EXTEND has exactly
\* one directional edge, READ from the file node to the program node, WRITE or EXTEND
\* from the program node to the file node, and its node is labelled with the
\* organization extracted for it, INDEXED when its own declaration says INDEXED.
C11_OneDirectionalEdge ==
    agg_pc = "done" =>
        \A k \in DOMAIN files :
            LET f == files[k].key
                direction == ExtractedType[data.text][f]
                node == DirectionNode(direction, f)
            IN direction \in {"INPUT", "OUTPUT", "EXTEND"} =>
                   /\ Cardinality(DirectionalEdges(f)) = 1
                   /\ \A e \in DirectionalEdges(f) :
                          agg_graph.edges[e] =
                              DirectionEdge(direction, f, ProgramName(data.path))
                   /\ \E n \in DOMAIN agg_graph.nodes :
                          /\ agg_graph.nodes[n].name = node
                          /\ agg_graph.nodes[n].label =
                                 f \o "\n(" \o files[k].val.organization \o ")"
                   /\ WindowInfo[data.text][f].organization = "INDEXED" =>
                          \A n \in DOMAIN agg_graph.nodes :
                              agg_graph.nodes[n].name = node =>
                                  agg_graph.nodes[n].label = f \o "\n(INDEXED)"

\* C11 witness: a file declared INDEXED and opened for INPUT has been drawn with its
\* READ edge.
C11_Witness ==
    /\ agg_pc = "done"
    /\ \E k \in DOMAIN files :
          /\ ExtractedType[data.text][files[k].key] = "INPUT"
          /\ WindowInfo[data.text][files[k].key].organization = "INDEXED"
          /\ Cardinality(DirectionalEdges(files[k].key)) = 1

\* the words of a job-control text: its lines cut at blanks and commas
JclWords(text) == SplitOn(text, {" ", ",", "\n"})
\* the identifiers the invocation markers of a text declare: what follows PGM= in a
\* word, up to the blank, comma or line end that closes the parameter
DeclaredPgm(text) ==
    LET w == JclWords(text)
    IN {SubSeq(w[k], 5, Len(w[k])) :
           k \in {j \in DOMAIN w : Len(w[j]) > 4 /\ SubSeq(w[j], 1, 4) = "PGM="}}

\* C12: extract_pgm_from_jcl returns every identifier the text declares exactly once,
\* returns no identifier the text does not declare, and returns the empty list for
\* a text without an invocation marker.
C12_ExtractsDeclaredOnce ==
    pgm_pc = "done" =>
        /\ \A id \in DeclaredPgm(pgm_input) :
               Cardinality({k \in DOMAIN pgm_result : pgm_result[k] = id}) = 1
        /\ Range(pgm_result) \subseteq DeclaredPgm(pgm_input)
        /\ DeclaredPgm(pgm_input) = {} => pgm_result = <<>>

\* the identifier was classified Resolved, as a key of the index, for some job
ResolvedForSomeJob(id) ==
    /\ id \in DOMAIN cobol_index
    /\ \E c \in classified : c.prog = id /\ c.kind = "Resolved"
\* the pair was classified Resolved, as a key of the index
ResolvedPair(jcl, id) ==
    /\ id \in DOMAIN cobol_index
    /\ [jcl |-> jcl, prog |-> id, kind |-> "Resolved"] \in classified
\* the references to a utility that is no key of the index, and to an identifier
\* that is neither
UtilityReferences ==
    {c \in classified : c.prog \in system_programs /\ c.prog \notin DOMAIN cobol_index}
UnresolvedReferences ==
    {c \in classified : c.prog \notin system_programs /\ c.prog \notin DOMAIN cobol_index}

\* C13: a reference classified SystemUtility or Unresolved leaves no program node, no
\* executes edge and no cbl_files entry: every program node of the graph and every
\* entry of the listing is an identifier classified Resolved for some job, every
\* edge joins a pair classified Resolved, and system (resp. missing) counts one for
\* every such reference.
C13_OnlyResolvedDrawn ==
    /\ stats.system = Cardinality(UtilityReferences)
    /\ stats.missing = Cardinality(UnresolvedReferences)
    /\ \A c \in UtilityReferences \cup UnresolvedReferences :
          /\ c.kind \in {"SystemUtility", "Unresolved"}
          /\ c.prog \notin DictKeys(cobol_to_jcl)
          /\ \A n \in DOMAIN graph.nodes : graph.nodes[n].name # "CBL_" \o c.prog
          /\ \A e \in DOMAIN graph.edges : graph.edges[e].head # "CBL_" \o c.prog
          /\ \A o \in Range(output_data) :
                 \A k \in DOMAIN o.cbl_files : o.cbl_files[k].program # c.prog
    /\ \A n \in DOMAIN graph.nodes :
          graph.nodes[n].cluster = "cluster_cobol" =>
              /\ ResolvedForSomeJob(graph.nodes[n].label)
              /\ graph.nodes[n].name = "CBL_" \o graph.nodes[n].label
    /\ \A e \in DOMAIN graph.edges :
          \E c \in classified :
              /\ ResolvedPair(c.jcl, c.prog)
              /\ graph.edges[e].tail = "JCL_" \o c.jcl
              /\ graph.edges[e].head = "CBL_" \o c.prog
    /\ \A o \in Range(output_data) :
          \A k \in DOMAIN o.cbl_files :
              /\ ResolvedForSomeJob(o.cbl_files[k].program)
              /\ \A j \in Range(o.cbl_files[k].jcl_files) :
                     ResolvedPair(j, o.cbl_files[k].program)

\* C13 witness: the graph has been drawn after a scan that met a utility, an
\* identifier of no kind and a program of the index.
C13_Witness ==
    /\ pc = "done"
    /\ \E n \in DOMAIN graph.nodes : graph.nodes[n].cluster = "cluster_cobol"
    /\ graph.edges # <<>>
    /\ UtilityReferences # {}
    /\ UnresolvedReferences # {}
    /\ stats.system >= 1
    /\ stats.missing >= 1

\* a node of this id and type is in the graph
HasNode(id, type) ==
    \E n \in DOMAIN dep_graph.nodes :
        dep_graph.nodes[n].id = id /\ dep_graph.nodes[n].type = type
\* the job names the mapping input lists
ListedJobs == UNION {Range(mappings[k].jcl_files) : k \in DOMAIN mappings}

\* C14: in the graph built from any mapping input, every executes edge has a jcl
\* node as source and a program node as target, every listed job has its own jcl
\* node, also when its derived id is a program name or the derived id of another
\* job, and no edge is a self-loop on a program node.
C14_EdgesJoinJobToProgram ==
    dep_pc = "done" =>
        /\ \A e \in DOMAIN dep_graph.edges :
               /\ HasNode(dep_graph.edges[e].source, "jcl")
               /\ HasNode(dep_graph.edges[e].target, "program")
               /\ ~(/\ dep_graph.edges[e].source = dep_graph.edges[e].target
                    /\ HasNode(dep_graph.edges[e].target, "program"))
        /\ \A j \in ListedJobs :
               \E n \in DOMAIN dep_graph.nodes :
                   /\ dep_graph.nodes[n].type = "jcl"
                   /\ dep_graph.nodes[n].id = JclId(j)
                   /\ dep_graph.nodes[n].label = j

====
